---------------------------- MODULE Spec2Model ----------------------------
(***************************************************************************)
(* A state-machine model of the timeout-capturing feedback, the timeout    *)
(* verification stage and the power mutational stage of libafl-fuzz.       *)
(*                                                                         *)
(*   fuzzers/forkserver/libafl-fuzz/src/feedback/capture_timeout.rs        *)
(*   fuzzers/forkserver/libafl-fuzz/src/stages/verify_timeouts.rs          *)
(*   libafl/src/stages/power.rs                                            *)
(*   fuzzers/libafl-fuzz/src/fuzzer.rs                                     *)
(*   libafl/src/feedbacks/custom_testcase_filename.rs                      *)
(*                                                                         *)
(* The fuzzing loop is single threaded: one stage runs at a time (pc), and *)
(* a stage's loop is modelled one target execution per step.               *)
(*                                                                         *)
(* Specifications:                                                         *)
(*   Spec        the capturing feedback, the verification stage and the    *)
(*               power stage over one State                                *)
(*   RestartSpec the power stage with the process torn down and relaunched *)
(*   DrainSpec   the verification stage with captures during its drain     *)
(*   ClientSpec  run_client from its start through its fuzzing loop, with  *)
(*               a target whose executions complete normally               *)
(*   EvalSpec    the fuzzer's evaluation of executions of every exit kind  *)
(*   FilenameSpec the filename feedback called on its own                  *)
(***************************************************************************)
EXTENDS Integers, Sequences, FiniteSets

----------------------------------------------------------------------------
(* Bounds of the model *)

\* hang timeouts range over 1..MaxTimeout (milliseconds)
MaxTimeout == 2
\* inputs are 1..NumInputs
NumInputs == 2
\* the TimeoutsToVerify queue is explored up to this length
MaxQueue == 2
\* coverage map indices are 1..NumEdges
NumEdges == 1
\* scores are integers in units of 1/ScoreScale
ScoreScale == 2
\* scaled scores range over 0..MaxPerf
MaxPerf == 4
\* a Testcase's power stage is torn down and relaunched at most this often
MaxRestarts == 1
\* run_client: the coverage map's indices are 1..MapSize
MapSize == 2
\* run_client: the fuzzing loop makes at most this many passes
MaxPasses == 3
\* the filename closure numbers the names of a directory 1..NumNames
NumNames == 2

Inputs == 1..NumInputs
Edges == 1..NumEdges
Timeouts == 1..MaxTimeout
Scores == 0..MaxPerf
\* ExitKind, as the spec's data model gives it
ExitKinds == {"Normal", "Crash", "Timeout", "OutOfMemory"}
\* what Executor::run_target returns: Ok(exit kind) or Err
RunOutcomes == ExitKinds \cup {"Err"}
MapIndexes == 1..MapSize
\* the exit kinds of the executions in ClientSpec, which explores run_client's
\* options and its scheduling: the target behaves
QuietExitKinds == {"Normal"}
\* the options of run_client the model reads, besides ignore_timeouts
Opts == [cur_input_dir : BOOLEAN, harness_input_type : BOOLEAN,
         cmplog_binary : BOOLEAN, cmplog_only_new : BOOLEAN]

\* a Testcase's filename when it has none (None)
NoFilename == [dir |-> "none", id |-> 0]

\* the record of no evaluated execution
NoExecution ==
    [exit_kind |-> "none", new_obj |-> FALSE, new_edges |-> FALSE,
     is_solution |-> FALSE, is_corpus |-> FALSE, filename |-> NoFilename,
     ret |-> "none"]

\* the record of no call to the filename feedback
NoCall ==
    [op |-> "none", exit_kind |-> "none", id |-> 0, func_ok |-> TRUE,
     ret |-> "none"]

----------------------------------------------------------------------------
VARIABLES
    hang_timeout,    \* opt.hang_timeout, the configured timeout
    stage,           \* VerifyTimeoutsStage { doubled_timeout, original_timeout }
    ignore_timeouts, \* opt.ignore_timeouts
    exec_timeout,    \* the executor's timeout (HasTimeout)
    meta,            \* state metadata slot of TimeoutsToVerify: [present, inputs]
    pc,              \* which stage is running: "idle", "verify", "power"
    timeouts,        \* perform's local clone of the queue
    vt_ret,          \* result of the last VerifyTimeoutsStage::perform
    vt_snapshot,     \* history: queue contents when that perform began
    vt_pre_timeout,  \* history: executor timeout when that perform began
    vt_pre_present,  \* history: the queue metadata was present when that perform began
    vt_appended,     \* history: inputs appended to the queue while that perform ran
    replayed,        \* history: the run_target calls of that perform
    vt_exit,         \* history: what that perform's last run_target returned
    observed,        \* history: inputs of the Timeout executions since the last drain
    corpus,          \* the queue corpus: its number of Testcases (Corpus::count)
    solutions,       \* the solutions corpus: its number of entries
    hist_edges,      \* MaxMapFeedback "edges" history
    hist_obj,        \* MaxMapFeedback "edges_objective" history
    capture_ret,     \* last return of CaptureTimeoutFeedback::is_interesting
    sr_ret,          \* last return of VerifyTimeoutsStage::should_restart
    current,         \* corpus id of the Testcase being fuzzed (0: none)
    pw_score,        \* the score computed for that Testcase, scaled
    pw_num,          \* perform_mutational's iteration count
    pw_done,         \* iterations of the running loop completed
    pw_cycles,       \* history: mutate-execute-feedback cycles of the last perform
    pw_ret,          \* result of the last PowerMutationalStage::perform
    restart_meta,    \* state metadata slot of the restart helper: "none" or
                     \* the executions count at which the stage's progress started
    pw_restarts,     \* history: relaunches while this Testcase was in the stage
    pw_before,       \* history: executions of this Testcase's stage before the
                     \* last relaunch
    opt,             \* run_client: Opt; the fields are TRUE for Some(..)
    cpc,             \* run_client: "start", "seeds", "ready", "stages",
                     \* "error" (returned at startup), "failed" (returned later)
    client_ret,      \* run_client: the error it returned, "none" while it runs
    executor_built,  \* run_client: the executor was built (lines 173-175)
    testcases,       \* run_client: the queue corpus, one record per Testcase
    objectives,      \* run_client: the solutions corpus, one record per entry
    cur_id,          \* run_client: corpus id of the scheduled Testcase (0: none)
    stage_idx,       \* run_client: index in the stages tuple of the running stage
    pass,            \* history: the stages completed in the current pass
    ev,              \* history: the last evaluated execution, NoExecution
                     \* outside the seed loading and the power stage
    queue_cov,       \* history: per Testcase of the queue corpus, the coverage
                     \* of the execution that admitted it
    fn_call          \* history: the last direct call to the filename feedback

vars == <<hang_timeout, stage, ignore_timeouts, exec_timeout, meta, pc, timeouts, vt_ret,
          vt_snapshot, vt_pre_timeout, vt_pre_present, vt_appended, replayed, vt_exit, observed,
          corpus, solutions, hist_edges, hist_obj, capture_ret, sr_ret, current,
          pw_score, pw_num, pw_done, pw_cycles, pw_ret, restart_meta,
          pw_restarts, pw_before, opt, cpc, client_ret, executor_built,
          testcases, objectives, cur_id, stage_idx, pass, ev, queue_cov, fn_call>>

\* what only run_client's model reads and writes
client_vars == <<opt, cpc, client_ret, executor_built, testcases, objectives,
                 cur_id, stage_idx, pass, ev, queue_cov, fn_call>>

\* what a stage or a feedback can change: the fuzzer's State, the executor, the stage
state_vars == <<hang_timeout, stage, ignore_timeouts, exec_timeout, meta, corpus, solutions,
                hist_edges, hist_obj>>

\* the record of the last VerifyTimeoutsStage::perform
verify_vars == <<timeouts, vt_ret, vt_snapshot, vt_pre_timeout, vt_pre_present, vt_appended,
                 replayed, vt_exit>>

\* the record of the last PowerMutationalStage::perform
power_vars == <<current, pw_score, pw_num, pw_done, pw_cycles, pw_ret,
                restart_meta, pw_restarts, pw_before>>

\* a call forgets the record of the other stage's last call
ForgetVerify ==
    /\ timeouts' = << >>
    /\ vt_ret' = "none"
    /\ vt_snapshot' = << >>
    /\ vt_pre_timeout' = 0
    /\ vt_pre_present' = FALSE
    /\ vt_appended' = << >>
    /\ replayed' = << >>
    /\ vt_exit' = "none"

ForgetPower ==
    /\ current' = 0
    /\ pw_score' = 0
    /\ pw_num' = 0
    /\ pw_done' = 0
    /\ pw_cycles' = 0
    /\ pw_ret' = "none"
    /\ pw_restarts' = 0
    /\ pw_before' = 0
    /\ UNCHANGED restart_meta

----------------------------------------------------------------------------
(* VerifyTimeoutsStage and TimeoutsToVerify: verify_timeouts.rs *)

\* VerifyTimeoutsStage::new
VerifyTimeoutsStage_new(configured_timeout) ==
    [doubled_timeout |-> configured_timeout * 2,
     original_timeout |-> configured_timeout]

\* TimeoutsToVerify::new: an empty VecDeque
TimeoutsToVerify_new == << >>

\* push as a push_front would do it
push_front(inputs, input) == <<input>> \o inputs

\* TimeoutsToVerify::push: push_back
push(inputs, input) == Append(inputs, input)

\* pop as a pop_back would do it
pop_back(inputs) ==
    IF inputs = << >>
    THEN [some |-> FALSE, input |-> 0, rest |-> inputs]
    ELSE [some |-> TRUE, input |-> inputs[Len(inputs)],
          rest |-> SubSeq(inputs, 1, Len(inputs) - 1)]

\* TimeoutsToVerify::pop: pop_front, None on an empty queue
pop(inputs) ==
    IF inputs = << >>
    THEN [some |-> FALSE, input |-> 0, rest |-> inputs]
    ELSE [some |-> TRUE, input |-> Head(inputs), rest |-> Tail(inputs)]

\* the lookup as it would be if it handed out a fresh queue for an absent
\* slot without inserting it
metadata_or_insert_with_NoInsert(m) == m

\* HasMetadata::metadata_or_insert_with for the TimeoutsToVerify slot
metadata_or_insert_with(m) ==
    IF m.present THEN m ELSE [present |-> TRUE, inputs |-> TimeoutsToVerify_new]

\* the queue a reader of the state sees: empty when the slot is absent
Queue == IF meta.present THEN meta.inputs ELSE << >>

----------------------------------------------------------------------------
(* CaptureTimeoutFeedback: capture_timeout.rs *)

\* is_interesting as it would be if it reported the captured Timeout as interesting
is_interesting_TimeoutIsInteresting(m, input, exit_kind) ==
    [ret |-> exit_kind = "Timeout",
     meta |-> IF exit_kind = "Timeout"
              THEN [metadata_or_insert_with(m) EXCEPT !.inputs = Append(@, input)]
              ELSE m]

\* is_interesting as it would be if it fetched the queue (get-or-insert) before
\* it looked at the exit kind
is_interesting_AlwaysCreates(m, input, exit_kind) ==
    [ret |-> FALSE,
     meta |-> IF exit_kind = "Timeout"
              THEN [metadata_or_insert_with(m) EXCEPT !.inputs = Append(@, input)]
              ELSE metadata_or_insert_with(m)]

\* CaptureTimeoutFeedback::is_interesting: the verdict and the metadata slot after it
is_interesting(m, input, exit_kind) ==
    [ret |-> FALSE,
     meta |-> IF exit_kind = "Timeout"
              THEN [metadata_or_insert_with(m) EXCEPT !.inputs = push(@, input)]
              ELSE m]

----------------------------------------------------------------------------
(* The admission policies of run_client: fuzzer.rs *)

\* MaxMapFeedback: the run's coverage holds an index its history map does not
MaxMapFeedback_is_interesting(cov, history) == cov \ history # {}

\* the filename feedback's verdict: Ok(false)
CustomTestcaseFilenameFeedback_is_interesting == FALSE

\* the "solution worthy" chain as it would be without the MaxMapFeedback on
\* "edges_objective"
objective_WithoutCoverage(exit_kind, cov, history) ==
    \/ exit_kind = "Crash"
    \/ (~ignore_timeouts) /\ exit_kind = "Timeout"
    \/ CustomTestcaseFilenameFeedback_is_interesting

\* the "solution worthy" chain:
\* or(and(or_fast(Crash, and(Const(!ignore_timeouts), Timeout)), MaxMap), filename)
objective(exit_kind, cov, history) ==
    \/ /\ \/ exit_kind = "Crash"
          \/ (~ignore_timeouts) /\ exit_kind = "Timeout"
       /\ MaxMapFeedback_is_interesting(cov, history)
    \/ CustomTestcaseFilenameFeedback_is_interesting

\* the "corpus worthy" chain as it would be if the filename feedback OR-ed
\* onto it were interesting
feedback_FilenameInteresting(cov, history) == TRUE

\* the "corpus worthy" chain once the seeds are loaded:
\* or(or(MaxMap, TimeFeedback), filename); TimeFeedback is never interesting
feedback(cov, history) ==
    \/ MaxMapFeedback_is_interesting(cov, history)
    \/ FALSE
    \/ CustomTestcaseFilenameFeedback_is_interesting

\* One evaluated execution of `input` that ended in exit_kind with coverage cov:
\* the timeout-capturing feedback runs on it (its verdict OR-ed onto the
\* objective chain), then the objective chain decides, then the feedback chain.
evaluate_input(input, exit_kind, cov) ==
    LET cap == is_interesting(meta, input, exit_kind)
        is_solution == objective(exit_kind, cov, hist_obj) \/ cap.ret
        is_corpus == (~is_solution) /\ feedback(cov, hist_edges)
    IN  /\ exit_kind = "Timeout" => Len(Queue) < MaxQueue
        /\ meta' = cap.meta
        /\ capture_ret' = IF cap.ret THEN "true" ELSE "false"
        /\ observed' = IF exit_kind = "Timeout" THEN Append(observed, input)
                       ELSE observed
        /\ solutions' = IF is_solution THEN solutions + 1 ELSE solutions
        /\ hist_obj' = IF is_solution THEN hist_obj \cup cov ELSE hist_obj
        /\ corpus' = IF is_corpus THEN corpus + 1 ELSE corpus
        /\ hist_edges' = IF is_corpus THEN hist_edges \cup cov ELSE hist_edges

----------------------------------------------------------------------------
(* VerifyTimeoutsStage::perform, one target execution per step *)

\* lines 84-87: clone the queue (creating it if absent), double the timeout
VerifyPerformBegin ==
    /\ pc = "idle"
    /\ pc' = "verify"
    /\ meta' = metadata_or_insert_with(meta)
    /\ timeouts' = metadata_or_insert_with(meta).inputs
    /\ exec_timeout' = stage.doubled_timeout
    /\ vt_ret' = "none"
    /\ vt_snapshot' = Queue
    /\ vt_pre_timeout' = exec_timeout
    /\ vt_pre_present' = meta.present
    /\ vt_appended' = << >>
    /\ replayed' = << >>
    /\ vt_exit' = "none"
    /\ capture_ret' = "none"
    /\ sr_ret' = "none"
    /\ ForgetPower
    /\ UNCHANGED <<client_vars, hang_timeout, stage, ignore_timeouts, observed, corpus,
                   solutions, hist_edges, hist_obj>>

\* the replay as it would be if it went through the fuzzer's evaluation and a
\* crashing or timing out replay were admitted as an objective
VerifyPerformReplay_Evaluated(outcome) ==
    /\ pc = "verify"
    /\ timeouts # << >>
    /\ timeouts' = Tail(timeouts)
    /\ replayed' = Append(replayed, [input |-> Head(timeouts),
                                     timeout |-> exec_timeout])
    /\ vt_exit' = outcome
    /\ IF outcome = "Err"
       THEN pc' = "idle" /\ vt_ret' = "Err"
       ELSE pc' = "verify" /\ vt_ret' = "none"
    /\ solutions' = IF outcome \in {"Crash", "Timeout"} THEN solutions + 1
                    ELSE solutions
    /\ UNCHANGED <<client_vars, hang_timeout, stage, ignore_timeouts, exec_timeout, meta,
                   corpus, hist_edges, hist_obj, vt_snapshot, vt_pre_timeout, vt_pre_present, vt_appended,
                   observed, capture_ret, sr_ret, power_vars>>

\* the replay as it would be if a replay that timed out or crashed ended the
\* pass like an executor error
VerifyPerformReplay_StopsOnFailure(outcome) ==
    /\ pc = "verify"
    /\ timeouts # << >>
    /\ timeouts' = Tail(timeouts)
    /\ replayed' = Append(replayed, [input |-> Head(timeouts),
                                     timeout |-> exec_timeout])
    /\ vt_exit' = outcome
    /\ IF outcome \in {"Err", "Timeout", "Crash"}
       THEN pc' = "idle" /\ vt_ret' = "Err"
       ELSE pc' = "verify" /\ vt_ret' = "none"
    /\ UNCHANGED <<client_vars, state_vars, vt_snapshot, vt_pre_timeout, vt_pre_present, vt_appended, observed,
                   capture_ret, sr_ret, power_vars>>

\* lines 88-91: pop the next input and run it on the executor directly (no
\* feedback sees the run); an Err of run_target returns from perform at once
VerifyPerformReplay(outcome) ==
    /\ pc = "verify"
    /\ pop(timeouts).some
    /\ timeouts' = pop(timeouts).rest
    /\ replayed' = Append(replayed, [input |-> pop(timeouts).input,
                                     timeout |-> exec_timeout])
    /\ vt_exit' = outcome
    /\ IF outcome = "Err"
       THEN pc' = "idle" /\ vt_ret' = "Err"
       ELSE pc' = "verify" /\ vt_ret' = "none"
    /\ UNCHANGED <<client_vars, state_vars, vt_snapshot, vt_pre_timeout, vt_pre_present, vt_appended, observed,
                   capture_ret, sr_ret, power_vars>>

\* the end of perform as it would be without line 92
VerifyPerformEnd_KeepsDoubled ==
    /\ pc = "verify"
    /\ timeouts = << >>
    /\ pc' = "idle"
    /\ meta' = [present |-> TRUE, inputs |-> << >>]
    /\ vt_ret' = "Ok"
    /\ observed' = << >>
    /\ UNCHANGED <<client_vars, hang_timeout, stage, ignore_timeouts, exec_timeout, timeouts,
                   vt_snapshot, vt_pre_timeout, vt_pre_present, vt_appended, replayed, vt_exit, corpus,
                   solutions, hist_edges, hist_obj, capture_ret, sr_ret,
                   power_vars>>

\* the end of perform as it would be if it removed from the queue only the
\* inputs of its clone
VerifyPerformEnd_KeepsAppended ==
    /\ pc = "verify"
    /\ timeouts = << >>
    /\ pc' = "idle"
    /\ exec_timeout' = stage.original_timeout
    /\ meta' = [present |-> TRUE,
                inputs |-> SubSeq(Queue, Len(vt_snapshot) + 1, Len(Queue))]
    /\ vt_ret' = "Ok"
    /\ observed' = meta'.inputs
    /\ UNCHANGED <<client_vars, hang_timeout, stage, ignore_timeouts, timeouts,
                   vt_snapshot, vt_pre_timeout, vt_pre_present, vt_appended, replayed, vt_exit,
                   corpus, solutions, hist_edges, hist_obj, capture_ret, sr_ret,
                   power_vars>>

\* the end of perform as it would be if the stage restored the timeout the
\* executor had when the pass began instead of its construction-time value
VerifyPerformEnd_RestoresSaved ==
    /\ pc = "verify"
    /\ ~pop(timeouts).some
    /\ pc' = "idle"
    /\ exec_timeout' = vt_pre_timeout
    /\ IF meta.present
       THEN /\ meta' = [meta EXCEPT !.inputs = TimeoutsToVerify_new]
            /\ vt_ret' = "Ok"
            /\ observed' = << >>
       ELSE /\ vt_ret' = "Panic"
            /\ UNCHANGED <<meta, observed>>
    /\ UNCHANGED <<client_vars, hang_timeout, stage, ignore_timeouts, timeouts, vt_snapshot,
                   vt_pre_timeout, vt_pre_present, vt_appended, replayed, vt_exit, corpus, solutions, hist_edges, hist_obj,
                   capture_ret, sr_ret, power_vars>>

\* lines 92-95: the loop ended on None: restore the timeout, reset the queue
\* (the unwrap panics on an absent slot), return Ok
VerifyPerformEnd ==
    /\ pc = "verify"
    /\ ~pop(timeouts).some
    /\ pc' = "idle"
    /\ exec_timeout' = stage.original_timeout
    /\ IF meta.present
       THEN /\ meta' = [meta EXCEPT !.inputs = TimeoutsToVerify_new]
            /\ vt_ret' = "Ok"
            /\ observed' = << >>
       ELSE /\ vt_ret' = "Panic"
            /\ UNCHANGED <<meta, observed>>
    /\ UNCHANGED <<client_vars, hang_timeout, stage, ignore_timeouts, timeouts, vt_snapshot,
                   vt_pre_timeout, vt_pre_present, vt_appended, replayed, vt_exit, corpus, solutions, hist_edges, hist_obj,
                   capture_ret, sr_ret, power_vars>>

\* should_restart as it would be if it asked for a restart only with inputs queued
should_restart_OnlyWhenQueued == Queue # << >>

\* VerifyTimeoutsStage::should_restart: Ok(true)
should_restart == TRUE

VerifyShouldRestart ==
    /\ pc = "idle"
    /\ sr_ret' = IF should_restart THEN "true" ELSE "false"
    /\ capture_ret' = "none"
    /\ ForgetVerify
    /\ ForgetPower
    /\ UNCHANGED <<client_vars, state_vars, pc, observed>>

----------------------------------------------------------------------------
(* PowerMutationalStage: power.rs *)

\* the cast as it would be if it rounded up
as_usize_RoundsUp(score) ==
    IF score < 0 THEN 0 ELSE (score + ScoreScale - 1) \div ScoreScale

\* `as usize` of a float score, held in units of 1/ScoreScale: truncation
\* toward zero, a negative value gives 0
as_usize(score) == IF score < 0 THEN 0 ELSE score \div ScoreScale

\* PowerMutationalStage::iterations, given what F::compute returned
iterations(score) == as_usize(score)

\* ExecutionCountRestartHelper::execs_since_progress_start, to which line 77
\* delegates: the executions since the count the helper's metadata slot
\* holds; with no slot stored the count starts at this call
execs_since_progress_start(m, executions) ==
    IF m = "none" THEN 0 ELSE executions - m

\* PowerMutationalStage::restart_progress_should_run: Ok(true); the call of
\* the helper that stores the slot is commented out, the slot stays as it is
restart_progress_should_run(m, executions) == [ret |-> TRUE, meta |-> m]

\* PowerMutationalStage::clear_restart_progress: Ok(()); the call of the
\* helper that removes the slot is commented out
clear_restart_progress(m) == m

\* MutationalStage::perform_mutational, its start: the iteration count is
\* computed once, from the score of the current Testcase
perform_mutational(id, score) ==
    /\ current' = id
    /\ pw_score' = score
    /\ pw_num' = iterations(score)
    /\ pw_done' = 0
    /\ pw_cycles' = 0
    /\ pc' = "power"

\* perform as it would be if it returned without running perform_mutational
PowerPerformBegin_SkipsLoop(id, score) ==
    /\ pc = "idle"
    /\ current' = id
    /\ pw_score' = score
    /\ pw_num' = 0
    /\ pw_done' = 0
    /\ pw_cycles' = 0
    /\ pc' = "power"
    /\ pw_ret' = "none"
    /\ pw_restarts' = 0
    /\ pw_before' = 0
    /\ sr_ret' = "none"
    /\ capture_ret' = "none"
    /\ ForgetVerify
    /\ UNCHANGED <<client_vars, state_vars, observed, restart_meta>>

\* PowerMutationalStage::perform on Testcase id, for which the scoring policy
\* computes `score`: delegates to perform_mutational
PowerPerformBegin(id, score) ==
    /\ pc = "idle"
    /\ perform_mutational(id, score)
    /\ pw_ret' = "none"
    /\ pw_restarts' = 0
    /\ pw_before' = 0
    /\ sr_ret' = "none"
    /\ capture_ret' = "none"
    /\ ForgetVerify
    /\ UNCHANGED <<client_vars, state_vars, observed, restart_meta>>

\* one iteration of perform_mutational's loop: clone the base input, mutate it
\* (any input may result), execute it once and evaluate the result
PowerPerformCycle(mutated, exit_kind, cov) ==
    /\ pc = "power"
    /\ pw_done < pw_num
    /\ evaluate_input(mutated, exit_kind, cov)
    /\ pw_done' = pw_done + 1
    /\ pw_cycles' = pw_cycles + 1
    /\ UNCHANGED <<client_vars, hang_timeout, stage, ignore_timeouts, exec_timeout, pc,
                   verify_vars, sr_ret, current, pw_score, pw_num, pw_ret,
                   restart_meta, pw_restarts, pw_before>>

\* the loop of perform_mutational is over: perform returns Ok
PowerPerformEnd ==
    /\ pc = "power"
    /\ pw_done >= pw_num
    /\ pc' = "idle"
    /\ pw_ret' = "Ok"
    /\ restart_meta' = clear_restart_progress(restart_meta)
    /\ UNCHANGED <<client_vars, state_vars, verify_vars, observed, capture_ret, sr_ret,
                   current, pw_score, pw_num, pw_done, pw_cycles, pw_restarts,
                   pw_before>>

\* The process is torn down while the stage is part-way through the Testcase
\* and relaunched: the State (corpus, metadata, current Testcase) is restored,
\* run_client builds the executor and the stages anew, and the stage is entered
\* again for the same Testcase: restart_progress_should_run, then perform.
PowerRelaunch ==
    /\ pc = "power"
    /\ pw_restarts < MaxRestarts
    /\ restart_progress_should_run(restart_meta, pw_before + pw_done).ret
    /\ restart_meta' =
          restart_progress_should_run(restart_meta, pw_before + pw_done).meta
    /\ pw_num' = iterations(pw_score)
                   - execs_since_progress_start(restart_meta', pw_before + pw_done)
    /\ pw_done' = 0
    /\ pw_cycles' = 0
    /\ pw_restarts' = pw_restarts + 1
    /\ pw_before' = pw_before + pw_done
    /\ exec_timeout' = hang_timeout
    /\ UNCHANGED <<client_vars, hang_timeout, stage, ignore_timeouts, meta, corpus, solutions,
                   hist_edges, hist_obj, pc, verify_vars, observed, capture_ret,
                   sr_ret, current, pw_score, pw_ret>>

----------------------------------------------------------------------------
(* The fuzzer after run_client built it, and its steps *)

Init ==
    /\ hang_timeout \in Timeouts
    /\ stage = VerifyTimeoutsStage_new(hang_timeout)
    /\ exec_timeout = hang_timeout
    /\ ignore_timeouts \in BOOLEAN
    /\ meta = [present |-> FALSE, inputs |-> << >>]
    /\ pc = "idle"
    /\ timeouts = << >>
    /\ vt_ret = "none"
    /\ vt_snapshot = << >>
    /\ vt_pre_timeout = 0
    /\ vt_pre_present = FALSE
    /\ vt_appended = << >>
    /\ replayed = << >>
    /\ vt_exit = "none"
    /\ observed = << >>
    /\ corpus = 1
    /\ solutions = 0
    /\ hist_edges \in SUBSET Edges
    /\ hist_obj = {}
    /\ capture_ret = "none"
    /\ sr_ret = "none"
    /\ current = 0
    /\ pw_score = 0
    /\ pw_num = 0
    /\ pw_done = 0
    /\ pw_cycles = 0
    /\ pw_ret = "none"
    /\ restart_meta = "none"
    /\ pw_restarts = 0
    /\ pw_before = 0
    \* run_client's own records stay out of this specification: the corpora
    \* are the counts corpus and solutions
    /\ opt = [cur_input_dir |-> FALSE, harness_input_type |-> FALSE,
              cmplog_binary |-> FALSE, cmplog_only_new |-> FALSE]
    /\ cpc = "ready"
    /\ client_ret = "none"
    /\ executor_built = TRUE
    /\ testcases = << >>
    /\ objectives = << >>
    /\ cur_id = 0
    /\ stage_idx = 0
    /\ pass = << >>
    /\ ev = NoExecution
    /\ queue_cov = << >>
    /\ fn_call = NoCall

Next ==
    \/ VerifyPerformBegin
    \/ \E outcome \in RunOutcomes : VerifyPerformReplay(outcome)
    \/ VerifyPerformEnd
    \/ VerifyShouldRestart
    \/ \E id \in 1..corpus, score \in Scores : PowerPerformBegin(id, score)
    \/ \E mutated \in Inputs, exit_kind \in ExitKinds, cov \in SUBSET Edges :
          PowerPerformCycle(mutated, exit_kind, cov)
    \/ PowerPerformEnd

Spec == Init /\ [][Next]_vars

\* the power stage alone, with the process torn down and relaunched under it
RestartNext ==
    \/ \E id \in 1..corpus, score \in Scores : PowerPerformBegin(id, score)
    \/ \E mutated \in Inputs, exit_kind \in ExitKinds, cov \in SUBSET Edges :
          PowerPerformCycle(mutated, exit_kind, cov)
    \/ PowerPerformEnd
    \/ PowerRelaunch

RestartSpec == Init /\ [][RestartNext]_vars

\* While perform drains its clone, something that runs under run_target with
\* the State (line 89 hands it over) captures a Timeout: the feedback's
\* is_interesting appends `input` to the queue in the State.
VerifyPerformCapture(input) ==
    /\ pc = "verify"
    /\ Len(Queue) < MaxQueue
    /\ meta' = is_interesting(meta, input, "Timeout").meta
    /\ capture_ret' = IF is_interesting(meta, input, "Timeout").ret THEN "true"
                      ELSE "false"
    /\ vt_appended' = Append(vt_appended, input)
    /\ observed' = Append(observed, input)
    /\ UNCHANGED <<client_vars, hang_timeout, stage, ignore_timeouts, exec_timeout,
                   corpus, solutions, hist_edges, hist_obj, pc, timeouts, vt_ret,
                   vt_snapshot, vt_pre_timeout, vt_pre_present, replayed, vt_exit, sr_ret,
                   power_vars>>

\* the verification stage fed by a power stage whose executions complete or
\* time out without new coverage, with captures arriving while the stage drains
DrainNext ==
    \/ VerifyPerformBegin
    \/ \E outcome \in RunOutcomes : VerifyPerformReplay(outcome)
    \/ \E input \in Inputs : VerifyPerformCapture(input)
    \/ VerifyPerformEnd
    \/ \E id \in 1..corpus : PowerPerformBegin(id, MaxPerf)
    \/ \E mutated \in Inputs, exit_kind \in {"Normal", "Timeout"} :
          PowerPerformCycle(mutated, exit_kind, {})
    \/ PowerPerformEnd

DrainSpec == Init /\ [][DrainNext]_vars

----------------------------------------------------------------------------
(* run_client, from its start to its fuzzing loop: fuzzer.rs *)

\* what the verification and power stage models hold, untouched by run_client's
engine_vars == <<hang_timeout, stage, exec_timeout, meta, pc, observed,
                 capture_ret, sr_ret, verify_vars, power_vars>>

\* the check as it would be if it tested is_some instead of is_none
illegal_argument_WhenSome(o) == o.cur_input_dir /\ o.harness_input_type

\* lines 163-164: a directory for the current input is set and the harness
\* reads its input from stdin
illegal_argument(o) == o.cur_input_dir /\ ~o.harness_input_type

\* the stages tuple as it would be with power put first
stages_PowerFirst(o) ==
    IF o.cmplog_binary
    THEN <<"power", "calibration", "cmplog", "afl_stats_stage">>
    ELSE <<"power", "calibration", "afl_stats_stage">>

\* lines 265 and 278: the stages tuple, with the cmplog IfStage when a cmplog
\* binary is configured
stages(o) ==
    IF o.cmplog_binary
    THEN <<"calibration", "cmplog", "power", "afl_stats_stage">>
    ELSE <<"calibration", "power", "afl_stats_stage">>

\* the closure as it would be if it let every scheduling after the first pass
cb_FromSecondScheduling(o, testcase) ==
    IF o.cmplog_only_new /\ testcase.initial
    THEN FALSE
    ELSE testcase.scheduled_count >= 1

\* lines 251-261: the closure of the IfStage that wraps colorization, tracing
\* and redqueen, on the current Testcase
cb(o, testcase) ==
    IF o.cmplog_only_new /\ testcase.initial
    THEN FALSE
    ELSE testcase.scheduled_count = 1

\* a new Testcase: no filename, never scheduled
Testcase_new ==
    [filename |-> NoFilename, initial |-> FALSE, scheduled_count |-> 0,
     cmplog_at |-> {}]

\* what the closure of a filename feedback returns for the id-th entry of the
\* corpus in directory dir: Ok(name), or Err
func(dir, id, func_ok) ==
    IF func_ok THEN [ok |-> TRUE, name |-> [dir |-> dir, id |-> id]]
    ELSE [ok |-> FALSE, name |-> NoFilename]

\* append_metadata as it would be if it dropped the closure's result
append_metadata_DropsName(testcase, res) ==
    [ret |-> IF res.ok THEN "Ok" ELSE "Err", testcase |-> testcase]

\* append_metadata as it would be if it took the old filename out of the
\* Testcase before it looked at the closure's result
append_metadata_ClearsOnErr(testcase, res) ==
    IF res.ok
    THEN [ret |-> "Ok", testcase |-> [testcase EXCEPT !.filename = res.name]]
    ELSE [ret |-> "Err", testcase |-> [testcase EXCEPT !.filename = NoFilename]]

\* CustomTestcaseFilenameFeedback::append_metadata, given what (self.func)
\* returned: the `?` returns an Err before the assignment
append_metadata(testcase, res) ==
    IF res.ok
    THEN [ret |-> "Ok", testcase |-> [testcase EXCEPT !.filename = res.name]]
    ELSE [ret |-> "Err", testcase |-> testcase]

\* the stage the stages tuple is at
Running == IF cpc = "stages" THEN stages(opt)[stage_idx] ELSE "none"

\* One execution that ended in exit_kind with coverage cov, evaluated by the
\* fuzzer: the objective chain decides first, the feedback chain only for what
\* is no solution. An admitted input becomes a Testcase, the admitting chain's
\* append_metadata runs on it (func_ok: whether the chain's filename closure
\* returns Ok), its coverage joins that chain's history, and it is added to
\* the chain's corpus. An Err of append_metadata ends the campaign.
process_execution(exit_kind, cov, func_ok) ==
    LET is_solution == objective(exit_kind, cov, hist_obj)
        is_corpus == (~is_solution) /\ feedback(cov, hist_edges)
        res == IF is_solution THEN func("crashes", Len(objectives), func_ok)
               ELSE func("queue", Len(testcases), func_ok)
        am == append_metadata(Testcase_new, res)
        admitted == (is_solution \/ is_corpus) /\ am.ret = "Ok"
        failed == (is_solution \/ is_corpus) /\ am.ret = "Err"
    IN  /\ objectives' = IF is_solution /\ admitted
                         THEN Append(objectives, am.testcase) ELSE objectives
        /\ solutions' = Len(objectives')
        /\ hist_obj' = IF is_solution /\ admitted THEN hist_obj \cup cov ELSE hist_obj
        /\ testcases' = IF is_corpus /\ admitted
                        THEN Append(testcases, am.testcase) ELSE testcases
        /\ corpus' = Len(testcases')
        /\ queue_cov' = IF is_corpus /\ admitted THEN Append(queue_cov, cov)
                        ELSE queue_cov
        /\ hist_edges' = IF is_corpus /\ admitted THEN hist_edges \cup cov
                         ELSE hist_edges
        /\ ev' = [exit_kind |-> exit_kind,
                  new_obj |-> cov \ hist_obj # {},
                  new_edges |-> cov \ hist_edges # {},
                  is_solution |-> is_solution,
                  is_corpus |-> is_corpus,
                  filename |-> IF is_solution \/ is_corpus
                               THEN am.testcase.filename ELSE NoFilename,
                  ret |-> IF failed THEN "Err" ELSE "Ok"]
        /\ IF failed
           THEN cpc' = "failed" /\ client_ret' = "Err"
           ELSE UNCHANGED <<cpc, client_ret>>

\* lines 61-175: run_client up to the executor: the options are checked while
\* the executor is still a builder; an illegal combination returns the error,
\* otherwise the executor is built
ClientStart ==
    /\ cpc = "start"
    /\ IF illegal_argument(opt)
       THEN /\ cpc' = "error"
            /\ client_ret' = "IllegalArgument"
            /\ UNCHANGED executor_built
       ELSE /\ cpc' = "seeds"
            /\ executor_built' = TRUE
            /\ UNCHANGED client_ret
    /\ UNCHANGED <<fn_call, opt, testcases, objectives, cur_id, stage_idx, pass, ev,
                   ignore_timeouts, corpus, solutions, hist_edges, hist_obj,
                   queue_cov, engine_vars>>

\* lines 178-188, one seed file of load_initial_inputs: it is executed and
\* evaluated like any other input
ClientLoadSeed(exit_kind, cov, func_ok) ==
    /\ cpc = "seeds"
    /\ process_execution(exit_kind, cov, func_ok)
    /\ UNCHANGED <<fn_call, opt, executor_built, cur_id, stage_idx, pass,
                   ignore_timeouts, engine_vars>>

\* lines 190-208: the seeds are loaded; with cmplog_only_new every Testcase of
\* the corpus gets the IsInitialCorpusEntryMetadata marker
ClientSeedsLoaded ==
    /\ cpc = "seeds"
    /\ testcases # << >>
    /\ testcases' = IF opt.cmplog_only_new
                    THEN [id \in 1..Len(testcases) |->
                              [testcases[id] EXCEPT !.initial = TRUE]]
                    ELSE testcases
    /\ cpc' = "ready"
    /\ ev' = NoExecution
    /\ UNCHANGED <<fn_call, opt, client_ret, executor_built, objectives, cur_id,
                   stage_idx, pass, ignore_timeouts, corpus, solutions,
                   hist_edges, hist_obj, queue_cov, engine_vars>>

\* the passes the fuzzing loop has completed
RECURSIVE Passes(_)
Passes(tcs) ==
    IF tcs = << >> THEN 0 ELSE Head(tcs).scheduled_count + Passes(Tail(tcs))

\* fuzz_one: the scheduler picks Testcase id and the stages tuple starts on it
ClientSchedule(id) ==
    /\ cpc = "ready"
    /\ Passes(testcases) < MaxPasses
    /\ cur_id' = id
    /\ cpc' = "stages"
    /\ stage_idx' = 1
    /\ pass' = << >>
    /\ UNCHANGED <<fn_call, opt, client_ret, executor_built, testcases, objectives, ev,
                   ignore_timeouts, corpus, solutions, hist_edges, hist_obj,
                   queue_cov, engine_vars>>

\* the calibration stage runs on the current Testcase
ClientCalibration ==
    /\ Running = "calibration"
    /\ pass' = Append(pass, Running)
    /\ stage_idx' = stage_idx + 1
    /\ UNCHANGED <<fn_call, opt, cpc, client_ret, executor_built, testcases, objectives,
                   cur_id, ev, ignore_timeouts, corpus, solutions, hist_edges,
                   hist_obj, queue_cov, engine_vars>>

\* the cmplog IfStage: colorization, tracing and redqueen run on the current
\* Testcase when the closure says so
ClientCmplog ==
    /\ Running = "cmplog"
    /\ testcases' =
          IF cb(opt, testcases[cur_id])
          THEN [testcases EXCEPT ![cur_id].cmplog_at =
                                     @ \cup {testcases[cur_id].scheduled_count}]
          ELSE testcases
    /\ pass' = Append(pass, Running)
    /\ stage_idx' = stage_idx + 1
    /\ UNCHANGED <<fn_call, opt, cpc, client_ret, executor_built, objectives, cur_id, ev,
                   ignore_timeouts, corpus, solutions, hist_edges, hist_obj,
                   queue_cov, engine_vars>>

\* the power stage, one mutate-execute-evaluate cycle
ClientPowerCycle(exit_kind, cov, func_ok) ==
    /\ Running = "power"
    /\ process_execution(exit_kind, cov, func_ok)
    /\ UNCHANGED <<fn_call, opt, executor_built, cur_id, stage_idx, pass,
                   ignore_timeouts, engine_vars>>

\* the power stage returns
ClientPowerEnd ==
    /\ Running = "power"
    /\ pass' = Append(pass, Running)
    /\ stage_idx' = stage_idx + 1
    /\ ev' = NoExecution
    /\ UNCHANGED <<fn_call, opt, cpc, client_ret, executor_built, testcases, objectives,
                   cur_id, ignore_timeouts, corpus, solutions, hist_edges,
                   hist_obj, queue_cov, engine_vars>>

\* the statistics stage runs, the tuple is through, and fuzz_one counts the
\* scheduling of the Testcase
ClientStats ==
    /\ Running = "afl_stats_stage"
    /\ pass' = Append(pass, Running)
    /\ testcases' = [testcases EXCEPT ![cur_id].scheduled_count = @ + 1]
    /\ cpc' = "ready"
    /\ stage_idx' = 0
    /\ UNCHANGED <<fn_call, opt, client_ret, executor_built, objectives, cur_id, ev,
                   ignore_timeouts, corpus, solutions, hist_edges, hist_obj,
                   queue_cov, engine_vars>>

ClientInit ==
    /\ opt \in Opts
    /\ ignore_timeouts = FALSE
    /\ cpc = "start"
    /\ client_ret = "none"
    /\ executor_built = FALSE
    /\ testcases = << >>
    /\ objectives = << >>
    /\ cur_id = 0
    /\ stage_idx = 0
    /\ pass = << >>
    /\ ev = NoExecution
    /\ queue_cov = << >>
    /\ corpus = 0
    /\ solutions = 0
    /\ hist_edges = {}
    /\ hist_obj = {}
    /\ hang_timeout = MaxTimeout
    /\ stage = VerifyTimeoutsStage_new(hang_timeout)
    /\ exec_timeout = hang_timeout
    /\ meta = [present |-> FALSE, inputs |-> << >>]
    /\ pc = "idle"
    /\ timeouts = << >>
    /\ vt_ret = "none"
    /\ vt_snapshot = << >>
    /\ vt_pre_timeout = 0
    /\ vt_pre_present = FALSE
    /\ vt_appended = << >>
    /\ replayed = << >>
    /\ vt_exit = "none"
    /\ observed = << >>
    /\ capture_ret = "none"
    /\ sr_ret = "none"
    /\ current = 0
    /\ pw_score = 0
    /\ pw_num = 0
    /\ pw_done = 0
    /\ pw_cycles = 0
    /\ pw_ret = "none"
    /\ restart_meta = "none"
    /\ pw_restarts = 0
    /\ pw_before = 0
    /\ fn_call = NoCall

ClientNext ==
    \/ ClientStart
    \/ \E exit_kind \in QuietExitKinds, cov \in SUBSET MapIndexes,
          func_ok \in BOOLEAN : ClientLoadSeed(exit_kind, cov, func_ok)
    \/ ClientSeedsLoaded
    \/ \E id \in 1..Len(testcases) : ClientSchedule(id)
    \/ ClientCalibration
    \/ ClientCmplog
    \/ \E exit_kind \in QuietExitKinds, cov \in SUBSET MapIndexes,
          func_ok \in BOOLEAN : ClientPowerCycle(exit_kind, cov, func_ok)
    \/ ClientPowerEnd
    \/ ClientStats

ClientSpec == ClientInit /\ [][ClientNext]_vars

----------------------------------------------------------------------------
(* The evaluation of executions in the power stage of run_client's fuzzer,   *)
(* under every exit kind: the first pass over the one seed that was loaded.  *)

EvalInit ==
    /\ opt = [cur_input_dir |-> FALSE, harness_input_type |-> FALSE,
              cmplog_binary |-> FALSE, cmplog_only_new |-> FALSE]
    /\ ignore_timeouts \in BOOLEAN
    /\ cpc = "stages"
    /\ client_ret = "none"
    /\ executor_built = TRUE
    /\ \E cov \in (SUBSET MapIndexes) \ {{}} :
          /\ queue_cov = <<cov>>
          /\ hist_edges = cov
    /\ testcases = <<[Testcase_new EXCEPT !.filename = func("queue", 0, TRUE).name]>>
    /\ objectives = << >>
    /\ cur_id = 1
    /\ stage_idx = 2
    /\ pass = <<"calibration">>
    /\ ev = NoExecution
    /\ corpus = 1
    /\ solutions = 0
    /\ hist_obj = {}
    /\ hang_timeout = MaxTimeout
    /\ stage = VerifyTimeoutsStage_new(hang_timeout)
    /\ exec_timeout = hang_timeout
    /\ meta = [present |-> FALSE, inputs |-> << >>]
    /\ pc = "idle"
    /\ timeouts = << >>
    /\ vt_ret = "none"
    /\ vt_snapshot = << >>
    /\ vt_pre_timeout = 0
    /\ vt_pre_present = FALSE
    /\ vt_appended = << >>
    /\ replayed = << >>
    /\ vt_exit = "none"
    /\ observed = << >>
    /\ capture_ret = "none"
    /\ sr_ret = "none"
    /\ current = 0
    /\ pw_score = 0
    /\ pw_num = 0
    /\ pw_done = 0
    /\ pw_cycles = 0
    /\ pw_ret = "none"
    /\ restart_meta = "none"
    /\ pw_restarts = 0
    /\ pw_before = 0
    /\ fn_call = NoCall

EvalNext ==
    \E exit_kind \in ExitKinds, cov \in SUBSET MapIndexes, func_ok \in BOOLEAN :
        ClientPowerCycle(exit_kind, cov, func_ok)

EvalSpec == EvalInit /\ [][EvalNext]_vars

----------------------------------------------------------------------------
(* CustomTestcaseFilenameFeedback called on its own, on Testcases that may    *)
(* already carry a filename: custom_testcase_filename.rs                      *)

\* the fuzzer's State as a feedback gets it
FeedbackState == [testcases |-> testcases, objectives |-> objectives, meta |-> meta]

\* CustomTestcaseFilenameFeedback::is_interesting, lines 99-111: every
\* argument is ignored, the result is Ok(false)
CustomTestcaseFilenameFeedback_is_interesting_call(s, input, exit_kind) ==
    [ret |-> CustomTestcaseFilenameFeedback_is_interesting, state |-> s]

\* a feedback chain asks the filename feedback about an execution
FilenameIsInteresting(input, exit_kind) ==
    LET r == CustomTestcaseFilenameFeedback_is_interesting_call(FeedbackState, input,
                                                                exit_kind)
    IN  /\ cpc = "stages"
        /\ testcases' = r.state.testcases
        /\ objectives' = r.state.objectives
        /\ meta' = r.state.meta
        /\ fn_call' = [op |-> "is_interesting", exit_kind |-> exit_kind, id |-> 0,
                       func_ok |-> TRUE,
                       ret |-> IF r.ret THEN "Ok(true)" ELSE "Ok(false)"]
        /\ UNCHANGED <<opt, cpc, client_ret, executor_built, cur_id, stage_idx,
                       pass, ev, queue_cov, hang_timeout, stage, ignore_timeouts,
                       exec_timeout, corpus, solutions, hist_edges, hist_obj, pc,
                       observed, capture_ret, sr_ret, verify_vars, power_vars>>

\* append_metadata is called on the id-th Testcase, and the closure returns
\* Ok with the n-th name of directory dir, or Err
FilenameAppendMetadata(id, dir, n, func_ok) ==
    LET am == append_metadata(testcases[id], func(dir, n, func_ok))
    IN  /\ cpc = "stages"
        /\ id \in 1..Len(testcases)
        /\ testcases' = [testcases EXCEPT ![id] = am.testcase]
        /\ fn_call' = [op |-> "append_metadata", exit_kind |-> "none", id |-> id,
                       func_ok |-> func_ok, ret |-> am.ret]
        /\ UNCHANGED <<opt, cpc, client_ret, executor_built, objectives, cur_id,
                       stage_idx, pass, ev, queue_cov, engine_vars,
                       ignore_timeouts, corpus, solutions, hist_edges, hist_obj>>

\* the fuzzer makes a Testcase of another input
FilenameNewTestcase ==
    /\ cpc = "stages"
    /\ Len(testcases) < MaxQueue
    /\ testcases' = Append(testcases, Testcase_new)
    /\ fn_call' = NoCall
    /\ UNCHANGED <<opt, cpc, client_ret, executor_built, objectives, cur_id,
                   stage_idx, pass, ev, queue_cov, engine_vars, ignore_timeouts,
                   corpus, solutions, hist_edges, hist_obj>>

FilenameInit ==
    /\ opt = [cur_input_dir |-> FALSE, harness_input_type |-> FALSE,
              cmplog_binary |-> FALSE, cmplog_only_new |-> FALSE]
    /\ ignore_timeouts = FALSE
    /\ cpc = "stages"
    /\ client_ret = "none"
    /\ executor_built = TRUE
    /\ testcases = <<Testcase_new>>
    /\ objectives = << >>
    /\ cur_id = 1
    /\ stage_idx = 2
    /\ pass = <<"calibration">>
    /\ ev = NoExecution
    /\ queue_cov = << >>
    /\ corpus = 1
    /\ solutions = 0
    /\ hist_edges = {}
    /\ hist_obj = {}
    /\ hang_timeout = MaxTimeout
    /\ stage = VerifyTimeoutsStage_new(hang_timeout)
    /\ exec_timeout = hang_timeout
    /\ meta = [present |-> FALSE, inputs |-> << >>]
    /\ pc = "idle"
    /\ timeouts = << >>
    /\ vt_ret = "none"
    /\ vt_snapshot = << >>
    /\ vt_pre_timeout = 0
    /\ vt_pre_present = FALSE
    /\ vt_appended = << >>
    /\ replayed = << >>
    /\ vt_exit = "none"
    /\ observed = << >>
    /\ capture_ret = "none"
    /\ sr_ret = "none"
    /\ current = 0
    /\ pw_score = 0
    /\ pw_num = 0
    /\ pw_done = 0
    /\ pw_cycles = 0
    /\ pw_ret = "none"
    /\ restart_meta = "none"
    /\ pw_restarts = 0
    /\ pw_before = 0
    /\ fn_call = NoCall

FilenameNext ==
    \/ \E input \in Inputs, exit_kind \in ExitKinds :
          FilenameIsInteresting(input, exit_kind)
    \/ \E id \in 1..MaxQueue, dir \in {"queue", "crashes"}, n \in 1..NumNames,
          func_ok \in BOOLEAN : FilenameAppendMetadata(id, dir, n, func_ok)
    \/ FilenameNewTestcase

FilenameSpec == FilenameInit /\ [][FilenameNext]_vars

----------------------------------------------------------------------------
(* Properties *)

\* the inputs of the run_target calls of the last VerifyTimeoutsStage::perform
ReplayedInputs == [k \in 1..Len(replayed) |-> replayed[k].input]

\* a VerifyTimeoutsStage::perform has just returned (Ok or Err)
VerifyReturned == vt_ret \in {"Ok", "Err"}

\* the largest integer not above score / ScoreScale
Floor(score) ==
    CHOOSE n \in -(MaxPerf + 1)..(MaxPerf + 1) :
        n * ScoreScale <= score /\ score < (n + 1) * ScoreScale

\* C1: when VerifyTimeoutsStage::perform has returned, with Ok or with the
\* error of a replayed execution, the TimeoutsToVerify queue in the state
\* metadata is empty.
C1_QueueEmptyAfterPerform == VerifyReturned => Queue = << >>

\* C2: when VerifyTimeoutsStage::perform has returned, with Ok or with the
\* error of a replayed execution, the executor's timeout equals the timeout
\* the executor had when that perform began.
C2_TimeoutRestoredAfterPerform == VerifyReturned => exec_timeout = vt_pre_timeout

\* C3: CaptureTimeoutFeedback::is_interesting returns false for every input
\* and exit kind, in every state; so every admission to the solutions corpus
\* or the queue corpus brought coverage new to its history map: none is owed
\* to the capturing feedback's verdict.
C3_CaptureNeverInteresting ==
    /\ capture_ret # "true"
    /\ \A input \in Inputs, exit_kind \in ExitKinds :
          ~is_interesting(meta, input, exit_kind).ret
    /\ solutions <= Cardinality(hist_obj)
    /\ corpus <= 1 + Cardinality(hist_edges)

\* C3 happens: a Timeout execution was evaluated and captured, the feedback
\* said false, and nothing was admitted.
C3_Witness ==
    /\ capture_ret = "false"
    /\ observed # << >>
    /\ solutions = 0
    /\ corpus = 1

\* C4: outside a verification pass, the queue holds exactly the inputs of the
\* evaluated executions that ended in Timeout since the queue was last drained,
\* one entry each, in the order of the executions.
C4_QueueIsTimeoutsSinceDrain == pc # "verify" => Queue = observed

\* C4 happens: two Timeout executions of different inputs are queued.
C4_Witness ==
    /\ pc # "verify"
    /\ Len(Queue) >= 2
    /\ Queue[1] # Queue[2]

\* C5, as claimed: when perform has returned, every input that was in the
\* queue has been replayed exactly once, in FIFO order, each at twice the
\* configured timeout.
C5_EveryInputReplayed ==
    VerifyReturned =>
        /\ ReplayedInputs = vt_snapshot
        /\ \A k \in 1..Len(replayed) : replayed[k].timeout = 2 * hang_timeout

\* C5, amended: the replays of one perform are the queue's inputs in FIFO
\* order, none replayed twice, each at twice the configured timeout; when
\* perform returns Ok every queued input has been replayed exactly once (a
\* perform ended by an executor error has replayed only a prefix of the queue).
C5_ReplaysFifoAtDoubledTimeout ==
    /\ Len(replayed) <= Len(vt_snapshot)
    /\ ReplayedInputs = SubSeq(vt_snapshot, 1, Len(replayed))
    /\ \A k \in 1..Len(replayed) : replayed[k].timeout = 2 * hang_timeout
    /\ vt_ret = "Ok" => ReplayedInputs = vt_snapshot

\* C5 happens: a perform returned Ok after replaying two different inputs.
C5_Witness ==
    /\ vt_ret = "Ok"
    /\ Len(replayed) >= 2
    /\ replayed[1].input # replayed[2].input

\* C6: a perform on an empty or absent queue executes the target zero times,
\* returns Ok, and leaves the queue empty and the executor's timeout at its
\* value before the call.
C6_EmptyQueueNoOp ==
    /\ (pc = "verify" /\ vt_snapshot = << >>) => replayed = << >>
    /\ (vt_ret # "none" /\ vt_snapshot = << >>) =>
          /\ vt_ret = "Ok"
          /\ replayed = << >>
          /\ Queue = << >>
          /\ exec_timeout = vt_pre_timeout

\* C6 happens: a perform on an empty queue has returned.
C6_Witness ==
    /\ vt_ret = "Ok"
    /\ vt_snapshot = << >>
    /\ replayed = << >>

\* C7: no step of a verification pass, whatever the replay's exit kind, adds
\* to the solutions corpus or to the queue corpus.
C7_ReplayAdmitsNothing ==
    [][pc = "verify" => (solutions' = solutions /\ corpus' = corpus)]_vars

\* C7 happens: an input that had timed out completed normally in its replay.
C7_Witness ==
    /\ pc = "verify"
    /\ replayed # << >>
    /\ vt_exit = "Normal"

\* C8: should_restart returns true in every state, and a call of it changes
\* nothing in the state or the executor.
C8_ShouldRestartTrue ==
    /\ [](should_restart /\ sr_ret # "false")
    /\ [][sr_ret' # "none" => UNCHANGED state_vars]_vars

\* C8 happens: should_restart was called with inputs still queued and the
\* timeout still doubled, after a perform that an executor error ended.
C8_Witness ==
    /\ sr_ret = "true"
    /\ Queue # << >>
    /\ exec_timeout = stage.doubled_timeout

C10_PerformRunsIterationsCycles ==
    /\ pc = "power" => pw_cycles <= iterations(pw_score)
    /\ pw_ret = "Ok" => (pc = "idle" /\ pw_cycles = iterations(pw_score))

\* C10 happens: a perform returned after two cycles.
C10_Witness ==
    /\ pw_ret = "Ok"
    /\ pw_cycles >= 2

\* C11, as claimed: after a relaunch part-way through a Testcase the stage
\* runs only the remaining budget of that Testcase: iterations minus the
\* executions done since the stage's progress started.
C11_ResumeRunsRemainingBudget ==
    (pc = "power" /\ pw_restarts > 0) =>
        pw_num = iterations(pw_score) - pw_before

\* a failure exit kind the objective chain counts: Crash, or Timeout unless
\* timeouts are ignored
CountedFailure(exit_kind) ==
    \/ exit_kind = "Crash"
    \/ exit_kind = "Timeout" /\ ~ignore_timeouts

\* C12: the objective chain yields true for an execution if and only if its
\* exit kind is Crash, or Timeout with ignore_timeouts false, and its coverage
\* holds an index new to the "edges_objective" history; the filename feedback
\* OR-ed onto the chain changes no verdict, and with ignore_timeouts set no
\* Timeout is an objective.
C12_ObjectiveIffFailureWithNewCoverage ==
    /\ \A exit_kind \in ExitKinds, cov \in SUBSET MapIndexes :
          objective(exit_kind, cov, hist_obj) <=>
              (CountedFailure(exit_kind) /\ cov \ hist_obj # {})
    /\ ev # NoExecution =>
          /\ ev.is_solution <=> (CountedFailure(ev.exit_kind) /\ ev.new_obj)
          /\ (ignore_timeouts /\ ev.exit_kind = "Timeout") => ~ev.is_solution
          /\ (ev.is_solution /\ ev.ret = "Ok") => objectives # << >>

\* C12 happens: a Timeout with new coverage was admitted as the second
\* objective.
C12_Witness ==
    /\ ev.exit_kind = "Timeout"
    /\ ev.is_solution
    /\ Len(objectives) = 2

\* C13: the corpus-worthiness chain returns true exactly for an execution
\* whose coverage holds an index new to the cumulative "edges" history, so
\* once per newly discovered coverage: every admission to the queue brought
\* coverage the admissions before it had not, no two Testcases of the queue
\* were admitted with identical coverage, and an execution repeating the
\* coverage of an admitted one is rejected.
C13_NewCoverageAdmittedOnce ==
    /\ Len(queue_cov) = Len(testcases)
    /\ \A k \in 1..Len(queue_cov) :
          queue_cov[k] \ UNION {queue_cov[i] : i \in 1..(k - 1)} # {}
    /\ \A i, k \in 1..Len(queue_cov) : i # k => queue_cov[i] # queue_cov[k]
    /\ \A k \in 1..Len(queue_cov) : ~feedback(queue_cov[k], hist_edges)
    /\ ev # NoExecution =>
          /\ ev.is_corpus <=> (ev.new_edges /\ ~ev.is_solution)
          /\ (ev.is_corpus /\ ev.ret = "Ok") =>
                 feedback(queue_cov[Len(queue_cov)],
                          UNION {queue_cov[i] : i \in 1..(Len(queue_cov) - 1)})

\* C13 happens: after the fuzzer admitted a second Testcase, an execution
\* that completed normally without new coverage was rejected.
C13_Witness ==
    /\ Len(testcases) = 2
    /\ ev.exit_kind = "Normal"
    /\ ~ev.new_edges
    /\ ~ev.is_corpus

\* C14: append_metadata sets the Testcase's filename to Some(what the closure
\* returned); an input gets a filename exactly when it is admitted, and from
\* the filename feedback of the chain that admitted it: the objective chain's
\* for an entry of the solutions corpus, the corpus chain's for a Testcase of
\* the queue; an evaluated input that is not admitted has no filename.
C14_FilenameFromAdmittingChain ==
    /\ \A dir \in {"queue", "crashes"}, id \in 0..MapSize :
          append_metadata(Testcase_new, func(dir, id, TRUE)).testcase.filename
              = [dir |-> dir, id |-> id]
    /\ \A k \in 1..Len(testcases) : testcases[k].filename.dir = "queue"
    /\ \A k \in 1..Len(objectives) : objectives[k].filename.dir = "crashes"
    /\ ev # NoExecution =>
          /\ ev.filename # NoFilename <=>
                 ((ev.is_solution \/ ev.is_corpus) /\ ev.ret = "Ok")
          /\ ev.filename.dir = "crashes" <=> (ev.is_solution /\ ev.ret = "Ok")
          /\ ev.filename.dir = "queue" <=> (ev.is_corpus /\ ev.ret = "Ok")
          /\ (ev.is_solution /\ ev.ret = "Ok") =>
                 objectives[Len(objectives)].filename = ev.filename
          /\ (ev.is_corpus /\ ev.ret = "Ok") =>
                 testcases[Len(testcases)].filename = ev.filename

\* C14 happens: with a Testcase admitted to the queue by the fuzzer, a crash
\* was admitted as an objective and named by the objective chain's feedback.
C14_Witness ==
    /\ Len(testcases) >= 2
    /\ ev.is_solution
    /\ ev.filename.dir = "crashes"
    /\ objectives # << >>

\* C15: the comparison tracing sub-stage has run for a Testcase at most on
\* its second scheduling (its scheduled count was 1 at the gate), never on
\* its first nor on its third or a later one, and never for a Testcase that
\* carries the initial-corpus-entry marker while cmplog_only_new is set.
C15_CmplogOnSecondSchedulingOnly ==
    \A id \in 1..Len(testcases) :
        /\ testcases[id].cmplog_at \subseteq {1}
        /\ (opt.cmplog_only_new /\ testcases[id].initial) =>
               testcases[id].cmplog_at = {}
        /\ testcases[id].cmplog_at # {} =>
               (opt.cmplog_binary /\ testcases[id].scheduled_count >= 1)

\* C15 happens: a Testcase went through its third scheduling, and the
\* sub-stage ran on it on the second only.
C15_Witness ==
    \E id \in 1..Len(testcases) :
        /\ testcases[id].scheduled_count = 3
        /\ testcases[id].cmplog_at = {1}

\* the options name a directory for the current input but no harness input
\* type (the input goes to stdin)
IllegalConfiguration == opt.cur_input_dir /\ ~opt.harness_input_type

\* C16: with an illegal configuration run_client returns the illegal-argument
\* error at its start: the executor is never built, no seed is loaded and no
\* pass of the fuzzing loop runs; and the error is returned at no other point.
C16_IllegalConfigurationFailsAtStartup ==
    /\ IllegalConfiguration =>
          /\ cpc \in {"start", "error"}
          /\ ~executor_built
          /\ testcases = << >>
          /\ objectives = << >>
          /\ ev = NoExecution
          /\ cur_id = 0
          /\ pass = << >>
          /\ cpc = "error" => client_ret = "IllegalArgument"
    /\ client_ret = "IllegalArgument" =>
          /\ IllegalConfiguration
          /\ cpc = "error"

\* C16 happens: run_client returned the illegal-argument error.
C16_Witness ==
    /\ IllegalConfiguration
    /\ cpc = "error"
    /\ client_ret = "IllegalArgument"

\* C17: a replay that ends in Timeout or Crash (or in any exit kind) leaves
\* the pass running with the remaining inputs still to be replayed; a pass
\* returns early only on an error of the executor, and a pass whose last
\* replay gave an exit kind returned Ok with every queued input replayed.
C17_FailingReplayDoesNotStopDrain ==
    /\ [](/\ vt_ret = "Err" => vt_exit = "Err"
          /\ (pc = "verify" /\ vt_exit \in ExitKinds) =>
                 ReplayedInputs \o timeouts = vt_snapshot
          /\ (pc # "verify" /\ vt_exit \in ExitKinds) =>
                 (vt_ret = "Ok" /\ ReplayedInputs = vt_snapshot))
    /\ [][(pc = "verify" /\ replayed' # replayed /\ vt_exit' # "Err") =>
              (pc' = "verify" /\ vt_ret' = "none" /\ timeouts' = Tail(timeouts))]_vars

\* C17 happens: a replay crashed or timed out and the pass is still running,
\* with an input left to replay.
C17_Witness ==
    /\ pc = "verify"
    /\ vt_exit \in {"Timeout", "Crash"}
    /\ timeouts # << >>

\* the place of a stage in the order calibration, cmplog, power, statistics
Rank(name) ==
    CASE name = "calibration" -> 1
      [] name = "cmplog" -> 2
      [] name = "power" -> 3
      [] name = "afl_stats_stage" -> 4

\* C18: in a pass the stages run in the order calibration, the cmplog
\* sub-stage when a cmplog binary is configured, power, statistics, each at
\* most once: when the power stage runs or has run, calibration has run
\* before it in this pass, and executions are evaluated by the power stage
\* only after calibration.
C18_StagesInFixedOrder ==
    /\ \A j, k \in 1..Len(pass) : j < k => Rank(pass[j]) < Rank(pass[k])
    /\ \A k \in 1..Len(pass) :
          /\ pass[k] = "cmplog" => opt.cmplog_binary
          /\ pass[k] = "power" =>
                 /\ \E j \in 1..(k - 1) : pass[j] = "calibration"
                 /\ opt.cmplog_binary => \E j \in 1..(k - 1) : pass[j] = "cmplog"
          /\ pass[k] = "afl_stats_stage" => \E j \in 1..(k - 1) : pass[j] = "power"
    /\ cpc = "stages" =>
          /\ \A k \in 1..Len(pass) : Rank(pass[k]) < Rank(Running)
          /\ Running = "power" => \E j \in 1..Len(pass) : pass[j] = "calibration"
          /\ ev # NoExecution =>
                 (Running = "power" /\ \E j \in 1..Len(pass) : pass[j] = "calibration")

\* C18 happens: the power stage evaluated an execution after calibration and
\* the cmplog sub-stage had run in the pass.
C18_Witness ==
    /\ Running = "power"
    /\ pass = <<"calibration", "cmplog">>
    /\ ev.ret = "Ok"

\* C19: is_interesting with an exit kind other than Timeout leaves the
\* metadata slot of the queue as it is, contents and absence alike; with
\* Timeout and no queue in the state it creates the queue, which then holds
\* exactly the input of the call. So does every evaluated execution of the
\* power stage.
C19_CaptureTouchesQueueOnTimeoutOnly ==
    /\ [](\A input \in Inputs :
            /\ \A exit_kind \in ExitKinds \ {"Timeout"} :
                   is_interesting(meta, input, exit_kind).meta = meta
            /\ ~meta.present =>
                   is_interesting(meta, input, "Timeout").meta
                       = [present |-> TRUE, inputs |-> <<input>>])
    /\ [][(pc = "power" /\ pw_cycles' = pw_cycles + 1) =>
              /\ observed' = observed => meta' = meta
              /\ (observed' # observed /\ ~meta.present) =>
                     /\ meta'.present
                     /\ meta'.inputs = <<observed'[Len(observed')]>>]_vars

\* C19 happens: an execution that did not time out was evaluated and the
\* state still has no queue.
C19_Witness ==
    /\ pc = "power"
    /\ pw_cycles >= 1
    /\ capture_ret = "false"
    /\ observed = << >>
    /\ ~meta.present

C21_OkRestoresConfiguredTimeout ==
    vt_ret = "Ok" =>
        /\ stage.original_timeout = hang_timeout
        /\ exec_timeout = hang_timeout

\* C21 happens: a perform that began with the executor at another timeout than
\* the configured one (an earlier pass ended on an executor error and left it
\* doubled) replayed an input and returned Ok.
C21_Witness ==
    /\ vt_ret = "Ok"
    /\ vt_pre_timeout # hang_timeout
    /\ replayed # << >>
    /\ exec_timeout = hang_timeout

\* C22: CustomTestcaseFilenameFeedback::is_interesting returns Ok(false) for
\* every input and exit kind and changes nothing in the state, and when the
\* filename closure returns an error, append_metadata returns the error and
\* the Testcase's filename stays what it was.
C22_NeverInterestingAndErrKeepsFilename ==
    [][/\ fn_call'.op = "is_interesting" =>
             /\ fn_call'.ret = "Ok(false)"
             /\ UNCHANGED <<testcases, objectives, meta, state_vars>>
       /\ (fn_call'.op = "append_metadata" /\ ~fn_call'.func_ok) =>
             /\ fn_call'.ret = "Err"
             /\ testcases' = testcases
       /\ (fn_call'.op = "append_metadata" /\ fn_call'.func_ok) =>
             /\ fn_call'.ret = "Ok"
             /\ testcases'[fn_call'.id].filename # NoFilename]_vars

\* C22 happens: a Testcase that carries a filename went through an
\* append_metadata whose closure returned an error, and still carries it.
C22_Witness ==
    /\ fn_call.op = "append_metadata"
    /\ ~fn_call.func_ok
    /\ fn_call.ret = "Err"
    /\ testcases[fn_call.id].filename # NoFilename

\* C23: the lookup of the TimeoutsToVerify metadata at the end of
\* VerifyTimeoutsStage::perform never fails: while a pass runs and when its
\* replay loop has finished the queue metadata is present in the state, also
\* when it was absent before the call.
C23_QueueMetadataPresentAtLookup ==
    /\ vt_ret # "Panic"
    /\ pc = "verify" => meta.present
    /\ vt_ret = "Ok" => meta.present

\* C23 happens: a perform that found no queue metadata in the state has
\* returned Ok, and the metadata is there.
C23_Witness ==
    /\ vt_ret = "Ok"
    /\ ~vt_pre_present
    /\ meta.present
    /\ Queue = << >>


============================================================================
